---- MODULE Spec2Model ----
(***************************************************************************)
(* A model of the Databricks Genie Slack bot: the GenieClient.ask          *)
(* send/poll/parse state machine (genie_client.py), the SlackGenieBot      *)
(* question and feedback handlers with their two binding tables, and the   *)
(* table formatter (slack_bot.py).                                         *)
(*                                                                         *)
(* Python values are modelled as follows.  Strings are TLA+ strings.       *)
(* None is the string None below.  A dict key that is missing is Absent.   *)
(* A value that is a dict or None (a query result, an ask result) is a     *)
(* record, and the non-dict cases are the one-field records NoneQR,        *)
(* EmptyQR, AbsentQR.                                                      *)
(***************************************************************************)
EXTENDS Integers, Sequences, FiniteSets, TLC

None == "<None>"
Absent == "<absent>"

Min(a, b) == IF a <= b THEN a ELSE b
Max(a, b) == IF a >= b THEN a ELSE b

\* ---------------------------------------------------------------- bounds

\* Number of schema columns of a query result drawn for the formatter.
MaxCols == 1
\* Number of rows of a query result drawn for the formatter.
MaxFmtRows == 2
\* Largest poll interval and largest max_wait drawn for the poll loop.
MaxPollInterval == 2
MaxWaitBound == 3
\* Largest round-trip time of one get_message request.
MaxRtt == 1
\* Feedback prompts the chat surface accepts in one run (feedback_map never
\* evicts); a prompt posted beyond it fails.
MaxPrompts == 1
\* Number of attachments of a completed message drawn for _parse_response.
MaxAtts == 2

\* ------------------------------------------------------ program constants

\* widths = [min(w, 30) for w in widths]
ColumnCeiling == 30
\* def _format_query_result(result_data, max_rows: int = 15)
DefaultMaxRows == 15

\* ---------------------------------------------------------------- strings

RECURSIVE Rep(_, _)
\* c * n
Rep(c, n) == IF n <= 0 THEN "" ELSE c \o Rep(c, n - 1)

\* s[:w]
Prefix(s, w) == SubSeq(s, 1, Min(Max(w, 0), Len(s)))

\* s.ljust(w)
Ljust(s, w) == s \o Rep(" ", w - Len(s))

RECURSIVE Join(_, _)
\* sep.join(parts)
Join(parts, sep) ==
    IF Len(parts) = 0 THEN ""
    ELSE IF Len(parts) = 1 THEN parts[1]
    ELSE parts[1] \o sep \o Join(Tail(parts), sep)

\* str(i) for a one-digit index
Digit(i) == SubSeq("0123456789", i + 1, i + 1)

\* str(v) if v is not None else ""
StrOrEmpty(v) == IF v = None THEN "" ELSE v

\* ------------------------------------------------- the table formatter

\* The query-result JSON as _format_query_result reads it:
\*   columns       manifest.schema.columns, each entry its "name" or Absent
\*   data_array    result.data_array, rows of strings or None
\*   row_count     result.row_count when has_row_count
QueryResult(columns, data_array, has_row_count, row_count) ==
    [columns |-> columns, data_array |-> data_array,
     has_row_count |-> has_row_count, row_count |-> row_count]

NoneQR == [none |-> TRUE]
EmptyQR == [empty |-> TRUE]
AbsentQR == [absent |-> TRUE]

\* rows[:n], for n >= 0
Slice(rows, n) == SubSeq(rows, 1, Min(n, Len(rows)))

\* col_names = [c.get("name", f"col_{i}") for i, c in enumerate(columns_meta)]
ColNames(columns_meta) ==
    [i \in 1..Len(columns_meta) |->
        IF columns_meta[i] = Absent THEN "col_" \o Digit(i - 1)
        ELSE columns_meta[i]]

MaxOf(S) == CHOOSE m \in S : \A x \in S : x <= m

\* widths after the loop over display_rows, before the cap
RawWidths(col_names, display_rows) ==
    [i \in 1..Len(col_names) |->
        MaxOf({Len(col_names[i])} \cup
              {Len(StrOrEmpty(display_rows[r][i])) :
                  r \in {q \in 1..Len(display_rows) : Len(display_rows[q]) >= i}})]

\* widths left as computed, the cap forgotten
CapWidths_uncapped(widths) == widths

\* widths = [min(w, 30) for w in widths]
CapWidths(widths) == [i \in 1..Len(widths) |-> Min(widths[i], ColumnCeiling)]

\* the list parts of fmt_row: zip stops at the shorter of values and widths
FmtRowParts(values, widths) ==
    [i \in 1..Min(Len(values), Len(widths)) |->
        Ljust(Prefix(StrOrEmpty(values[i]), widths[i]), widths[i])]

fmt_row(values, widths) == Join(FmtRowParts(values, widths), " | ")

SeparatorParts(widths) == [i \in 1..Len(widths) |-> Rep("-", widths[i])]

\* footer = f"\n_Showing {max_rows} of {total} rows_" when total > max_rows
NoFooter == [shown |-> -1, total |-> -1]

Footer(total, max_rows) ==
    IF total > max_rows THEN [shown |-> max_rows, total |-> total]
    ELSE NoFooter

\* _format_query_result.  The result is None, or the table (lines is the list
\* lines, cells the parts each line was joined from, footer the footer), or
\* the IndexError that widths[i] raises for a displayed row longer than the
\* schema.
format_query_result(result_data, max_rows) ==
    LET columns_meta == result_data.columns
        rows == result_data.data_array
    IN  IF Len(rows) = 0 \/ Len(columns_meta) = 0 THEN [kind |-> "None"]
        ELSE
        LET col_names == ColNames(columns_meta)
            display_rows == Slice(rows, max_rows)
        IN  IF \E r \in 1..Len(display_rows) : Len(display_rows[r]) > Len(col_names)
            THEN [kind |-> "IndexError"]
            ELSE
            LET widths == CapWidths(RawWidths(col_names, display_rows))
                total == IF result_data.has_row_count THEN result_data.row_count
                         ELSE Len(rows)
            IN  [kind |-> "table",
                 lines |-> <<fmt_row(col_names, widths),
                             Join(SeparatorParts(widths), "-+-")>>
                           \o [r \in 1..Len(display_rows) |->
                                  fmt_row(display_rows[r], widths)],
                 cells |-> <<FmtRowParts(col_names, widths),
                             SeparatorParts(widths)>>
                           \o [r \in 1..Len(display_rows) |->
                                  FmtRowParts(display_rows[r], widths)],
                 footer |-> Footer(total, max_rows)]

\* ------------------------------------------------------ the Genie client

ConvIds == {"c1", "c2"}
MsgIds == {"m1"}

\* Python truthiness of a string-or-None value, and the operator `or`
Truthy(v) == v \notin {None, Absent, ""}
Or(a, b) == IF Truthy(a) THEN a ELSE b

\* a dict-valued result: None and {} are falsy
TruthyQR(qr) == qr \notin {NoneQR, EmptyQR, AbsentQR}

ErrSend == "Failed to send message to Genie"
ErrIds == "Could not extract conversation/message IDs from response"
ErrTimeout == "Timed out waiting for Genie response"
ErrUnknown == "Unknown error"

\* The dict ask returns; a key the dict does not hold is Absent (AbsentQR).
Result(success, conversation_id, message_id, text, sql, result_data, error) ==
    [success |-> success, conversation_id |-> conversation_id,
     message_id |-> message_id, text |-> text, sql |-> sql,
     result_data |-> result_data, error |-> error]

Failure(conversation_id, message_id, error) ==
    Result(FALSE, conversation_id, message_id, Absent, Absent, AbsentQR, error)

NoResult == [unset |-> TRUE]

\* The JSON body of a start-conversation or create-message response:
\*   has_message         the body has a "message" object
\*   m_conversation_id   message.conversation_id      m_id   message.id
\*   conv_id             conversation.id
\*   conversation_id, id the body's own keys
\* a missing key is None.
RawResponse(has_message, m_conversation_id, m_id, conv_id, conversation_id, id) ==
    [has_message |-> has_message, m_conversation_id |-> m_conversation_id,
     m_id |-> m_id, conv_id |-> conv_id,
     conversation_id |-> conversation_id, id |-> id]

\* cid = message_data.get("conversation_id") or conv_data.get("id") or conversation_id
ExtractCid(raw, conversation_id) ==
    LET md_cid == IF raw.has_message THEN raw.m_conversation_id
                  ELSE raw.conversation_id
    IN  Or(md_cid, Or(raw.conv_id, conversation_id))

\* mid = message_data.get("id") or raw.get("id")
ExtractMid(raw) ==
    LET md_id == IF raw.has_message THEN raw.m_id ELSE raw.id
    IN  Or(md_id, raw.id)

\* error_msg of _parse_response for a message whose status is not COMPLETED.
\* msg.error is [kind |-> "absent"], [kind |-> "dict", message |-> m] (m Absent
\* when the dict has no "message") or [kind |-> "other", str |-> str(value)].
ErrorMsg(error) ==
    IF error.kind = "absent" THEN ErrUnknown
    ELSE IF error.kind = "dict"
         THEN (IF error.message = Absent THEN ErrUnknown ELSE error.message)
         ELSE error.str

Whitespace == {" ", "\n", "\t"}

RECURSIVE LStrip(_)
LStrip(s) ==
    IF Len(s) > 0 /\ SubSeq(s, 1, 1) \in Whitespace
    THEN LStrip(SubSeq(s, 2, Len(s))) ELSE s

RECURSIVE RStrip(_)
RStrip(s) ==
    IF Len(s) > 0 /\ SubSeq(s, Len(s), Len(s)) \in Whitespace
    THEN RStrip(SubSeq(s, 1, Len(s) - 1)) ELSE s

\* s.strip()
Strip(s) == RStrip(LStrip(s))

\* One attachment of a completed message:
\*   has_text, content       "text" in att, att["text"].get("content", "")
\*   has_query               "query" in att
\*   description, query      query_info.get("description", ""), query_info.get("query")
\*   attachment_id           att.get("attachment_id")
Attachment(has_text, content, has_query, description, query, attachment_id) ==
    [has_text |-> has_text, content |-> content, has_query |-> has_query,
     description |-> description, query |-> query, attachment_id |-> attachment_id]

\* ParseLoop that keeps the query string of the first query fragment
RECURSIVE ParseLoop_first_query(_, _, _, _)
ParseLoop_first_query(attachments, fetch, i, acc) ==
    IF i > Len(attachments) THEN acc
    ELSE
    LET att == attachments[i]
        parts1 == IF att.has_text /\ Truthy(att.content)
                  THEN Append(acc.text_parts, att.content) ELSE acc.text_parts
        parts2 == IF att.has_query /\ Truthy(att.description)
                  THEN Append(parts1, att.description) ELSE parts1
        called == att.has_query /\ Truthy(att.attachment_id)
        next == [text_parts |-> parts2,
                 sql_text |-> IF att.has_query /\ acc.sql_text = None
                              THEN att.query ELSE acc.sql_text,
                 result_data |-> IF called /\ TruthyQR(fetch[i]) THEN fetch[i]
                                 ELSE acc.result_data,
                 fetched |-> IF called THEN Append(acc.fetched, att.attachment_id)
                             ELSE acc.fetched,
                 fetched_at |-> IF called /\ TruthyQR(fetch[i]) THEN i
                                ELSE acc.fetched_at]
    IN  ParseLoop_first_query(attachments, fetch, i + 1, next)

\* The loop over attachments of _parse_response, from attachment i on.
\* fetch[i] is what get_query_result returns for attachment i when it is
\* called; acc holds text_parts, sql_text, result_data and the attachment
\* ids get_query_result was called with, in order.
RECURSIVE ParseLoop(_, _, _, _)
ParseLoop(attachments, fetch, i, acc) ==
    IF i > Len(attachments) THEN acc
    ELSE
    LET att == attachments[i]
        parts1 == IF att.has_text /\ Truthy(att.content)
                  THEN Append(acc.text_parts, att.content) ELSE acc.text_parts
        parts2 == IF att.has_query /\ Truthy(att.description)
                  THEN Append(parts1, att.description) ELSE parts1
        called == att.has_query /\ Truthy(att.attachment_id)
        next == [text_parts |-> parts2,
                 sql_text |-> IF att.has_query THEN att.query ELSE acc.sql_text,
                 result_data |-> IF called /\ TruthyQR(fetch[i]) THEN fetch[i]
                                 ELSE acc.result_data,
                 fetched |-> IF called THEN Append(acc.fetched, att.attachment_id)
                             ELSE acc.fetched,
                 fetched_at |-> IF called /\ TruthyQR(fetch[i]) THEN i
                                ELSE acc.fetched_at]
    IN  ParseLoop(attachments, fetch, i + 1, next)

ParseStart ==
    [text_parts |-> <<>>, sql_text |-> None, result_data |-> NoneQR,
     fetched |-> <<>>, fetched_at |-> 0]

\* _parse_response with error_msg computed and stored whatever the status
parse_response_keeps_error(conversation_id, message_id, msg, fetch) ==
    LET acc == ParseLoop(msg.attachments, fetch, 1, ParseStart)
        joined == Join(acc.text_parts, "\n\n")
        response_text == IF joined # "" THEN joined
                         ELSE (IF msg.content = Absent THEN "" ELSE msg.content)
        text == IF msg.status = "COMPLETED" THEN Strip(response_text) ELSE Absent
    IN  [result |-> Result(msg.status = "COMPLETED", conversation_id, message_id,
                           text, IF msg.status = "COMPLETED" THEN acc.sql_text ELSE Absent,
                           IF msg.status = "COMPLETED" THEN acc.result_data ELSE AbsentQR,
                           ErrorMsg(msg.error)),
         fetched |-> acc.fetched, fetched_at |-> acc.fetched_at]

\* _parse_response: the returned dict, and the get_query_result calls made
parse_response(conversation_id, message_id, msg, fetch) ==
    IF msg.status # "COMPLETED"
    THEN [result |-> Failure(conversation_id, message_id, ErrorMsg(msg.error)),
          fetched |-> <<>>, fetched_at |-> 0]
    ELSE
    LET acc == ParseLoop(msg.attachments, fetch, 1, ParseStart)
        joined == Join(acc.text_parts, "\n\n")
        response_text == IF joined # "" THEN joined
                         ELSE (IF msg.content = Absent THEN "" ELSE msg.content)
    IN  [result |-> Result(TRUE, conversation_id, message_id, Strip(response_text),
                           acc.sql_text, acc.result_data, None),
         fetched |-> acc.fetched, fetched_at |-> acc.fetched_at]


\* ------------------------------------------------------ the Slack bot

Threads == {"t1", "t2"}
Workers == {"w1", "w2"}

UpperAlnum == {SubSeq("ABCDEFGHIJKLMNOPQRSTUVWXYZ0123456789", i, i) : i \in 1..36}

\* length of the run of [A-Z0-9] characters of s that starts at position i
RECURSIVE RunLen(_, _)
RunLen(s, i) ==
    IF i <= Len(s) /\ SubSeq(s, i, i) \in UpperAlnum THEN 1 + RunLen(s, i + 1) ELSE 0

\* re.sub(r"<@[A-Z0-9]+>", "", text)
RECURSIVE RemoveMentions(_)
RemoveMentions(s) ==
    IF Len(s) = 0 THEN ""
    ELSE
    LET k == RunLen(s, 3)
    IN  IF Len(s) >= 4 /\ SubSeq(s, 1, 2) = "<@" /\ k >= 1
           /\ SubSeq(s, 3 + k, 3 + k) = ">"
        THEN RemoveMentions(SubSeq(s, 4 + k, Len(s)))
        ELSE SubSeq(s, 1, 1) \o RemoveMentions(SubSeq(s, 2, Len(s)))

\* _strip_mention
strip_mention(text) == Strip(RemoveMentions(text))

TextPrompt == "Please ask me a question about your data!"
TextThinking == "Thinking..."
TextFallback == "Query executed successfully."
TextHelpful == "Was this response helpful?"
TextThanks == "Thanks for your feedback!"
TextFbFailed == "Failed to submit feedback."

\* _format_answer with one text for every failure, the error left out
format_answer_generic(result) ==
    IF ~result.success THEN "Sorry, something went wrong"
    ELSE IF Truthy(result.text) THEN result.text ELSE TextFallback

\* _format_answer
format_answer(result) ==
    IF ~result.success
    THEN "Sorry, something went wrong: "
             \o (IF result.error = Absent THEN "unknown error" ELSE result.error)
    ELSE IF Truthy(result.text) THEN result.text ELSE TextFallback

\* the Markdown code fence (three backquotes, written with quotes here)
Fence == "'''"

\* the text of the table message: the code block around the lines
TableText(table) ==
    "*Query Results:*\n" \o Fence \o "\n" \o Join(table.lines, "\n") \o "\n" \o Fence

\* An outbound chat message of one handled event
Post(kind, thread_ts, text) == [kind |-> kind, thread_ts |-> thread_ts, text |-> text]

\* The inbound event as the listeners and _handle_question read it
Event(type, channel_type, thread_ts, ts, bot_id, text) ==
    [type |-> type, channel_type |-> channel_type, thread_ts |-> thread_ts,
     ts |-> ts, bot_id |-> bot_id, text |-> text]

\* on_mention handles every app_mention; on_message handles a message only
\* in a direct-message channel or in a thread
Dispatched(e) ==
    e.type = "app_mention" \/ e.channel_type = "im" \/ e.thread_ts # None

\* A worker that is not handling a question.  event, out and ret describe the
\* last event it handled: what the event was, the chat messages the handler
\* posted for it, and how the handler ended.
Idle(bot_id, text, out, ret) ==
    [pc |-> "idle", bot_id |-> bot_id, text |-> text, thread_ts |-> None,
     sent |-> <<>>, cid |-> None, mid |-> None, now |-> 0, gets |-> 0,
     get_failed_at |-> 0, fetched |-> <<>>, result |-> NoResult,
     out |-> out, ret |-> ret]


\* ---------------------------------------------------------------- inputs

\* Texts of inbound events
EventTexts == {"", "<@U1> ", "<@U1> q"}

\* A mention or a message at the top level of a channel, a message in a
\* thread, a direct message; written by a user or by a bot (the bot's own
\* replies come back as message events that carry its bot_id)
Events ==
    {Event(type, "channel", None, ts, bot_id, text) :
        type \in {"app_mention", "message"}, ts \in Threads,
        bot_id \in {None, "B1"}, text \in EventTexts}
    \cup {Event("message", "channel", thread_ts, "t9", bot_id, text) :
        thread_ts \in Threads, bot_id \in {None, "B1"}, text \in EventTexts}
    \cup {Event("message", "im", None, ts, bot_id, text) :
        ts \in Threads, bot_id \in {None, "B1"}, text \in EventTexts}

\* Bodies a start-conversation or create-message request may be answered with
\* (the start-conversation shape, ids under "message" and "conversation", and
\* the create-message shape, ids at the top level)
RawResponses ==
    {RawResponse(TRUE, m_conversation_id, m_id, conv_id, None, id) :
        m_conversation_id \in ConvIds \cup {None}, m_id \in MsgIds \cup {None},
        conv_id \in ConvIds \cup {None}, id \in MsgIds \cup {None}}
    \cup {RawResponse(FALSE, None, None, None, conversation_id, id) :
        conversation_id \in ConvIds \cup {None}, id \in MsgIds \cup {None}}

\* The request failed: _request returned None
NoRaw == [none |-> TRUE]
NoMsg == [none |-> TRUE]

Msg(status, error, attachments, content) ==
    [status |-> status, error |-> error, attachments |-> attachments,
     content |-> content]

ErrorShapes ==
    {[kind |-> "absent"], [kind |-> "dict", message |-> "E"],
     [kind |-> "dict", message |-> ""], [kind |-> "dict", message |-> Absent],
     [kind |-> "other", str |-> "oops"]}

AttText == Attachment(TRUE, "T", FALSE, "", None, None)
AttQuery == Attachment(FALSE, "", TRUE, "D", "Q1", "a1")

AttachmentLists == {<<>>, <<AttText>>, <<AttQuery>>}

TableQR == QueryResult(<<"x">>, <<<<"1">>>>, FALSE, 0)
NoRowsQR == QueryResult(<<"x">>, <<>>, FALSE, 0)

\* What get_query_result may return
FetchResults == {NoneQR, EmptyQR, TableQR, NoRowsQR}

\* Bodies a get_message request may be answered with
PollMsgs ==
    {Msg("PENDING", [kind |-> "absent"], <<>>, Absent)}
    \cup {Msg(status, error, <<>>, Absent) :
             status \in {"FAILED", "CANCELLED"}, error \in ErrorShapes}
    \cup {Msg("COMPLETED", [kind |-> "absent"], atts, Absent) :
             atts \in AttachmentLists}
    \cup {Msg("FAILED", [kind |-> "dict", message |-> "E"], <<AttQuery>>, Absent)}

\* only COMPLETED and FAILED end the loop
Terminal_without_cancelled == {"COMPLETED", "FAILED"}

Terminal == {"COMPLETED", "FAILED", "CANCELLED"}

\* ts of the message a feedback action is about
FeedbackTs == 1..(MaxPrompts + 1)


\* ---------------------------------------------------------------- state

VARIABLES
    poll_interval,         \* GenieClient.poll_interval
    max_wait,              \* GenieClient.max_wait
    rtt,                   \* time one get_message request takes
    thread_conversations,  \* SlackGenieBot.thread_conversations
    feedback_map,          \* SlackGenieBot.feedback_map, indexed by prompt ts
    prompts,               \* the chat surface: the posted feedback prompts
    feedback_sent,         \* the backend: the send_feedback calls it received
    warnings,              \* the log: the ts of the "No feedback mapping" warnings
    first_conv,            \* per thread, the conversation of its first successful ask
    handler,               \* per worker, the position and locals of _handle_question
    fmt_in,                \* arguments of a _format_query_result call
    fmt_out,               \* its result
    parse_in,              \* arguments of a _parse_response call
    parse_out              \* its result and the get_query_result calls it made

vars == <<poll_interval, max_wait, rtt, thread_conversations, feedback_map,
          prompts, feedback_sent, warnings, first_conv, handler, fmt_in, fmt_out,
          parse_in, parse_out>>


\* ------------------------------------------------------------ GenieClient.ask

\* ask_send without the test "if raw is None": the failed request is read as
\* an empty body
ask_send_unchecked(h, conversation_id, raw) ==
    LET sent == IF Truthy(conversation_id)
                THEN <<"create_message", conversation_id>>
                ELSE <<"start_conversation">>
        h1 == [h EXCEPT !.sent = sent]
        body == IF raw = NoRaw THEN RawResponse(FALSE, None, None, None, None, None)
                ELSE raw
        cid == ExtractCid(body, conversation_id)
        mid == ExtractMid(body)
    IN  IF ~Truthy(cid) \/ ~Truthy(mid)
        THEN [h1 EXCEPT !.pc = "returned",
                        !.result = Failure(conversation_id, Absent, ErrIds)]
        ELSE [h1 EXCEPT !.pc = "poll", !.cid = cid, !.mid = mid, !.now = 0]

\* ask up to _poll_until_done: the request, the error returns, the ids.
\* h is the worker's record, conversation_id the argument of ask, raw the
\* body of the response or NoRaw.
ask_send(h, conversation_id, raw) ==
    LET sent == IF Truthy(conversation_id)
                THEN <<"create_message", conversation_id>>
                ELSE <<"start_conversation">>
        h1 == [h EXCEPT !.sent = sent]
    IN  IF raw = NoRaw
        THEN [h1 EXCEPT !.pc = "returned",
                        !.result = Failure(conversation_id, Absent, ErrSend)]
        ELSE
        LET cid == ExtractCid(raw, conversation_id)
            mid == ExtractMid(raw)
        IN  IF ~Truthy(cid) \/ ~Truthy(mid)
            THEN [h1 EXCEPT !.pc = "returned",
                            !.result = Failure(conversation_id, Absent, ErrIds)]
            ELSE [h1 EXCEPT !.pc = "poll", !.cid = cid, !.mid = mid, !.now = 0]

\* gets counts the get_message calls of one ask, up to GetsCap (the loop makes
\* at most max_wait / poll_interval + 1 of them, fewer than GetsCap)
GetsCap == MaxWaitBound + 2

\* while time.time() <= deadline
BeforeDeadline_inclusive(h) == h.now <= max_wait

\* while time.time() < deadline, with deadline = (time at entry, 0) + max_wait
BeforeDeadline(h) == h.now < max_wait

\* poll_once that sleeps and polls again after a failed get_message
poll_once_retry(h, msg, fetch) ==
    LET h1 == [h EXCEPT !.gets = Min(@ + 1, GetsCap), !.now = @ + rtt]
    IN  IF msg = NoMsg
        THEN [h1 EXCEPT !.get_failed_at = IF @ = 0 THEN h1.gets ELSE @,
                        !.now = @ + poll_interval]
        ELSE IF msg.status \in Terminal
        THEN LET pr == parse_response(h.cid, h.mid, msg, fetch)
             IN  [h1 EXCEPT !.pc = "returned", !.result = pr.result,
                            !.fetched = pr.fetched]
        ELSE [h1 EXCEPT !.now = @ + poll_interval]

\* One iteration of the loop of _poll_until_done, and what ask does when the
\* loop returns.  msg is the body get_message returned, or NoMsg.
poll_once(h, msg, fetch) ==
    LET h1 == [h EXCEPT !.gets = Min(@ + 1, GetsCap), !.now = @ + rtt]
    IN  IF msg = NoMsg
        THEN [h1 EXCEPT !.pc = "returned", !.get_failed_at = h1.gets,
                        !.result = Failure(h.cid, h.mid, ErrTimeout)]
        ELSE IF msg.status \in Terminal
        THEN LET pr == parse_response(h.cid, h.mid, msg, fetch)
             IN  [h1 EXCEPT !.pc = "returned", !.result = pr.result,
                            !.fetched = pr.fetched]
        ELSE [h1 EXCEPT !.now = @ + poll_interval]

\* a loop that starts a new wait at the deadline instead of returning
poll_timed_out_restarts(h) == [h EXCEPT !.now = 0]

\* the loop ends at the deadline: _poll_until_done returns None
poll_timed_out(h) ==
    [h EXCEPT !.pc = "returned", !.result = Failure(h.cid, h.mid, ErrTimeout)]

\* ------------------------------------------------- SlackGenieBot._handle_question

\* handle_question_start without the bot_id test
handle_question_start_no_self_check(e, posted) ==
    LET text == strip_mention(e.text)
        thread_ts == Or(e.thread_ts, e.ts)
    IN  IF Strip(text) = ""
        THEN (IF posted
              THEN Idle(e.bot_id, e.text,
                        <<Post("prompt_for_input", thread_ts, TextPrompt)>>, "prompted")
              ELSE Idle(e.bot_id, e.text, <<>>, "raised"))
        ELSE IF posted
        THEN [Idle(e.bot_id, e.text,
                   <<Post("placeholder", thread_ts, TextThinking)>>, "")
                 EXCEPT !.pc = "ask", !.thread_ts = thread_ts]
        ELSE Idle(e.bot_id, e.text, <<>>, "raised")

\* handle_question_start without the test "if not text.strip()"
handle_question_start_no_blank_test(e, posted) ==
    LET text == strip_mention(e.text)
        thread_ts == Or(e.thread_ts, e.ts)
    IN  IF Truthy(e.bot_id) THEN Idle(e.bot_id, e.text, <<>>, "ignored")
        ELSE IF posted
        THEN [Idle(e.bot_id, e.text,
                   <<Post("placeholder", thread_ts, TextThinking)>>, "")
                 EXCEPT !.pc = "ask", !.thread_ts = thread_ts]
        ELSE Idle(e.bot_id, e.text, <<>>, "raised")

\* _handle_question up to the placeholder.  posted: the chat post succeeded.
handle_question_start(e, posted) ==
    LET text == strip_mention(e.text)
        thread_ts == Or(e.thread_ts, e.ts)
    IN  IF Truthy(e.bot_id) THEN Idle(e.bot_id, e.text, <<>>, "ignored")
        ELSE IF Strip(text) = ""
        THEN (IF posted
              THEN Idle(e.bot_id, e.text,
                        <<Post("prompt_for_input", thread_ts, TextPrompt)>>, "prompted")
              ELSE Idle(e.bot_id, e.text, <<>>, "raised"))
        ELSE IF posted
        THEN [Idle(e.bot_id, e.text,
                   <<Post("placeholder", thread_ts, TextThinking)>>, "")
                 EXCEPT !.pc = "ask", !.thread_ts = thread_ts]
        ELSE Idle(e.bot_id, e.text, <<>>, "raised")

\* bind_conversation that keeps the binding a thread already has
bind_conversation_first_write(bindings, thread_ts, result) ==
    IF Truthy(result.conversation_id) /\ bindings[thread_ts] = None
    THEN [bindings EXCEPT ![thread_ts] = result.conversation_id]
    ELSE bindings

\* bind_conversation that binds only the conversation of a successful answer
bind_conversation_success_only(bindings, thread_ts, result) ==
    IF result.success /\ Truthy(result.conversation_id)
    THEN [bindings EXCEPT ![thread_ts] = result.conversation_id]
    ELSE bindings

\* if result.get("conversation_id"): self.thread_conversations[thread_ts] = ...
bind_conversation(bindings, thread_ts, result) ==
    IF Truthy(result.conversation_id)
    THEN [bindings EXCEPT ![thread_ts] = result.conversation_id]
    ELSE bindings

\* WantsFeedback without result.get("success")
WantsFeedback_any_result(result) ==
    Truthy(result.conversation_id) /\ Truthy(result.message_id)

\* if result.get("success") and result.get("conversation_id") and result.get("message_id")
WantsFeedback(result) ==
    result.success /\ Truthy(result.conversation_id) /\ Truthy(result.message_id)

\* handle_answer that posts the table before the answer text
handle_answer_table_first(h, fail_at, can_prompt) ==
    LET result == h.result
        thread_ts == h.thread_ts
        bindings == bind_conversation(thread_conversations, thread_ts, result)
        table == IF TruthyQR(result.result_data)
                 THEN format_query_result(result.result_data, DefaultMaxRows)
                 ELSE [kind |-> "None"]
        tabled == IF table.kind = "table"
                  THEN Append(h.out, Post("table", thread_ts, TableText(table)))
                  ELSE h.out
        answered == Append(tabled, Post("answer", thread_ts, format_answer(result)))
        prompted == WantsFeedback(result) /\ fail_at # "prompt" /\ can_prompt
        done(out, ret, binding) ==
            [h |-> Idle(h.bot_id, h.text, out, ret), binding |-> binding,
             bindings |-> bindings]
    IN  IF table.kind = "IndexError" THEN done(h.out, "raised", <<>>)
        ELSE IF table.kind = "table" /\ fail_at = "table"
        THEN done(h.out, "raised", <<>>)
        ELSE IF fail_at = "answer" THEN done(tabled, "raised", <<>>)
        ELSE IF prompted
        THEN done(Append(answered, Post("feedback_prompt", thread_ts, TextHelpful)),
                  "answered", <<<<result.conversation_id, result.message_id>>>>)
        ELSE done(answered, "answered", <<>>)

\* _handle_question from the binding on.  fail_at names the chat post that
\* raises, if any; the handler ends there, except that a failed feedback
\* prompt is caught.  The value is the worker's record, the posted prompt's
\* binding (<<>> when none is recorded) and the bindings of the threads.
handle_answer(h, fail_at, can_prompt) ==
    LET result == h.result
        thread_ts == h.thread_ts
        bindings == bind_conversation(thread_conversations, thread_ts, result)
        answered == Append(h.out, Post("answer", thread_ts, format_answer(result)))
        table == IF TruthyQR(result.result_data)
                 THEN format_query_result(result.result_data, DefaultMaxRows)
                 ELSE [kind |-> "None"]
        tabled == IF table.kind = "table"
                  THEN Append(answered, Post("table", thread_ts, TableText(table)))
                  ELSE answered
        prompted == WantsFeedback(result) /\ fail_at # "prompt" /\ can_prompt
        done(out, ret, binding) ==
            [h |-> Idle(h.bot_id, h.text, out, ret), binding |-> binding,
             bindings |-> bindings]
    IN  IF fail_at = "answer" THEN done(h.out, "raised", <<>>)
        ELSE IF table.kind = "IndexError" THEN done(answered, "raised", <<>>)
        ELSE IF table.kind = "table" /\ fail_at = "table"
        THEN done(answered, "raised", <<>>)
        ELSE IF prompted
        THEN done(Append(tabled, Post("feedback_prompt", thread_ts, TextHelpful)),
                  "answered", <<<<result.conversation_id, result.message_id>>>>)
        ELSE done(tabled, "answered", <<>>)

\* ---------------------------------------------------------------- actions

Others == <<poll_interval, max_wait, rtt, fmt_in, fmt_out, parse_in, parse_out>>

\* An event reaches _handle_question (lines 41-48, 64-77)
Receive(w, e, posted) ==
    /\ handler[w].pc = "idle"
    /\ Dispatched(e)
    /\ handler' = [handler EXCEPT ![w] = handle_question_start(e, posted)]
    /\ UNCHANGED <<thread_conversations, feedback_map, prompts, feedback_sent,
                   warnings, first_conv, Others>>

\* The binding is read and the question sent (lines 79-81, 230-248)
AskSend(w, raw) ==
    /\ handler[w].pc = "ask"
    /\ handler' = [handler EXCEPT ![w] =
           ask_send(@, thread_conversations[@.thread_ts], raw)]
    /\ UNCHANGED <<thread_conversations, feedback_map, prompts, feedback_sent,
                   warnings, first_conv, Others>>

\* One get_message and what follows it (lines 135-145, 250-255)
Poll(w, msg, fetch) ==
    /\ handler[w].pc = "poll"
    /\ BeforeDeadline(handler[w])
    /\ LET h == poll_once(handler[w], msg, fetch)
       IN  /\ handler' = [handler EXCEPT ![w] = h]
           /\ first_conv' =
                  IF h.pc = "returned" /\ h.result.success
                     /\ first_conv[h.thread_ts] = None
                  THEN [first_conv EXCEPT ![h.thread_ts] = h.result.conversation_id]
                  ELSE first_conv
    /\ UNCHANGED <<thread_conversations, feedback_map, prompts, feedback_sent,
                   warnings, Others>>

\* The deadline has passed (lines 135, 146-147, 251-253)
PollTimedOut(w) ==
    /\ handler[w].pc = "poll"
    /\ ~BeforeDeadline(handler[w])
    /\ handler' = [handler EXCEPT ![w] = poll_timed_out(@)]
    /\ UNCHANGED <<thread_conversations, feedback_map, prompts, feedback_sent,
                   warnings, first_conv, Others>>

\* The binding is written and the replies are posted (lines 83-101)
Answer(w, fail_at) ==
    /\ handler[w].pc = "returned"
    /\ LET r == handle_answer(handler[w], fail_at, Len(prompts) < MaxPrompts)
       IN  /\ handler' = [handler EXCEPT ![w] = r.h]
           /\ thread_conversations' = r.bindings
           /\ feedback_map' = feedback_map \o r.binding
           /\ prompts' = prompts \o [i \in 1..Len(r.binding) |-> "buttons"]
    /\ UNCHANGED <<feedback_sent, warnings, first_conv, Others>>

\* handle_feedback with info = self.feedback_map.get(msg_ts, (None, None)) and
\* no test of it
handle_feedback_no_lookup_test(ts, rating, sent, updated) ==
    LET info == IF ts \in DOMAIN feedback_map THEN feedback_map[ts]
                ELSE <<None, None>>
    IN  /\ feedback_sent' = feedback_sent \cup {<<info[1], info[2], rating>>}
        /\ prompts' = IF updated /\ ts \in DOMAIN prompts
                      THEN [prompts EXCEPT ![ts] =
                               IF sent THEN TextThanks ELSE TextFbFailed]
                      ELSE prompts
        /\ UNCHANGED warnings

\* _handle_feedback.  sent: send_feedback succeeded; updated: chat_update did.
handle_feedback(ts, rating, sent, updated) ==
    IF ts \notin DOMAIN feedback_map
    THEN /\ warnings' = warnings \cup {ts}
         /\ UNCHANGED <<feedback_sent, prompts>>
    ELSE /\ feedback_sent' =
                feedback_sent \cup {<<feedback_map[ts][1], feedback_map[ts][2], rating>>}
         /\ prompts' = IF updated
                       THEN [prompts EXCEPT ![ts] =
                                IF sent THEN TextThanks ELSE TextFbFailed]
                       ELSE prompts
         /\ UNCHANGED warnings

\* A feedback button is pressed (lines 50-58, 184-203)
Feedback(ts, rating, sent, updated) ==
    /\ handle_feedback(ts, rating, sent, updated)
    /\ UNCHANGED <<thread_conversations, feedback_map, first_conv, handler, Others>>

Fail == {"none", "answer", "table", "prompt"}

\* An environment: the events the chat surface delivers, whether its posts
\* succeed, and the bodies the backend answers with.
Env(events, posted, raws, msgs, fetches, fails) ==
    [events |-> events, posted |-> posted, raws |-> raws, msgs |-> msgs,
     fetches |-> fetches, fails |-> fails]

AnyEnv ==
    Env(Events, BOOLEAN, RawResponses \cup {NoRaw}, PollMsgs \cup {NoMsg},
        FetchResults, Fail)

Step(w, env) ==
    \/ \E e \in env.events, posted \in env.posted : Receive(w, e, posted)
    \/ \E raw \in env.raws : AskSend(w, raw)
    \/ \E msg \in env.msgs, fetch \in [1..1 -> env.fetches] : Poll(w, msg, fetch)
    \/ PollTimedOut(w)
    \/ \E fail_at \in env.fails : Answer(w, fail_at)

FeedbackStep ==
    \E ts \in FeedbackTs, rating \in {"POSITIVE", "NEGATIVE"},
       sent \in BOOLEAN, updated \in BOOLEAN : Feedback(ts, rating, sent, updated)

NoFmt == [unset |-> TRUE]
NoParse == [unset |-> TRUE]

\* _parse_response has not been called on its own
NoParseCall == parse_in = NoParse /\ parse_out = NoParse

\* The bot after construction, with a client of the given configuration
Start(intervals, waits, rtts) ==
    /\ poll_interval \in intervals
    /\ max_wait \in waits
    /\ rtt \in rtts
    /\ thread_conversations = [t \in Threads |-> None]
    /\ feedback_map = <<>>
    /\ prompts = <<>>
    /\ feedback_sent = {}
    /\ warnings = {}
    /\ first_conv = [t \in Threads |-> None]
    /\ handler = [w \in Workers |-> Idle(None, "", <<>>, "")]

\* Question events handled one at a time, against any backend and chat surface.
Init == Start({1}, {2}, {0}) /\ fmt_in = NoFmt /\ fmt_out = NoFmt /\ NoParseCall

Next == Step("w1", AnyEnv)

Spec == Init /\ [][Next]_vars


\* ------------------------------------------------ the poll loop on its own

\* One question event, answered by any backend, under every configuration
PollEnv ==
    Env({Event("app_mention", "channel", None, "t1", None, "<@U1> q")}, {TRUE},
        {RawResponse(TRUE, "c1", "m1", None, None, None), NoRaw},
        PollMsgs \cup {NoMsg}, FetchResults, {"none"})

PollInit ==
    /\ Start(1..MaxPollInterval, 0..MaxWaitBound, 0..MaxRtt)
    /\ fmt_in = NoFmt /\ fmt_out = NoFmt
    /\ NoParseCall

PollNext == Step("w1", PollEnv)

PollSpec == PollInit /\ [][PollNext]_vars

\* The thread that runs the handler keeps running, and every request returns
LivePollSpec == PollSpec /\ WF_vars(PollNext)

\* ------------------------------------------------ the formatter on its own

FmtNames == {"h", Rep("H", ColumnCeiling + 1), Absent}
FmtValues == {None, Rep("v", ColumnCeiling + 1)}

RECURSIVE SeqsUpTo(_, _)
\* the sequences over S of length at most n
SeqsUpTo(S, n) ==
    IF n = 0 THEN {<<>>}
    ELSE LET shorter == SeqsUpTo(S, n - 1)
         IN  shorter \cup {Append(q, x) : q \in {r \in shorter : Len(r) = n - 1}, x \in S}

FmtRows == SeqsUpTo(FmtValues, MaxCols + 1)

FmtResults ==
    {QueryResult(columns, data_array, has_row_count, row_count) :
        columns \in SeqsUpTo(FmtNames, MaxCols),
        data_array \in SeqsUpTo(FmtRows, MaxFmtRows),
        has_row_count \in BOOLEAN, row_count \in {MaxFmtRows + 2}}

FmtMaxRows == (0..MaxFmtRows) \cup {DefaultMaxRows}

FmtInit ==
    /\ Start({1}, {2}, {0})
    /\ fmt_in \in [result_data : FmtResults, max_rows : FmtMaxRows]
    /\ fmt_out = NoFmt
    /\ NoParseCall

\* A call of _format_query_result
Format ==
    /\ fmt_out = NoFmt
    /\ fmt_out' = format_query_result(fmt_in.result_data, fmt_in.max_rows)
    /\ UNCHANGED <<poll_interval, max_wait, rtt, thread_conversations, feedback_map,
                   prompts, feedback_sent, warnings, first_conv, handler, fmt_in,
                   parse_in, parse_out>>

FmtNext == Format

FmtSpec == FmtInit /\ [][FmtNext]_vars

\* ------------------------------------------------ _parse_response on its own

\* Query fragments with and without an attachment id, one without a query
\* string, and a text fragment
AttQuery2 == Attachment(FALSE, "", TRUE, "", "Q2", "a2")
AttQueryNoId == Attachment(FALSE, "", TRUE, "", "Q3", None)
AttQueryNoSql == Attachment(FALSE, "", TRUE, "", None, "a4")

ParseAtts == {AttText, AttQuery, AttQuery2, AttQueryNoId, AttQueryNoSql}

\* a second table, to tell the results of two fetches apart
TableQR2 == QueryResult(<<"y">>, <<<<"2">>>>, FALSE, 0)

\* get_query_result fails (None), or returns a table
ParseFetches == {NoneQR, TableQR, TableQR2}

ParseMsgs ==
    {Msg("COMPLETED", [kind |-> "absent"], atts, Absent) :
        atts \in SeqsUpTo(ParseAtts, MaxAtts)}

ParseInit ==
    /\ Start({1}, {2}, {0})
    /\ fmt_in = NoFmt /\ fmt_out = NoFmt
    /\ parse_in \in [msg : ParseMsgs, fetch : [1..MaxAtts -> ParseFetches]]
    /\ parse_out = NoParse

\* A call of _parse_response for message m1 of conversation c1
Parse ==
    /\ parse_out = NoParse
    /\ parse_out' = parse_response("c1", "m1", parse_in.msg, parse_in.fetch)
    /\ UNCHANGED <<poll_interval, max_wait, rtt, thread_conversations, feedback_map,
                   prompts, feedback_sent, warnings, first_conv, handler,
                   fmt_in, fmt_out, parse_in>>

ParseNext == Parse

ParseSpec == ParseInit /\ [][ParseNext]_vars

\* ------------------------------------------------ feedback on its own

\* Questions in one thread that the backend answers or fails, and feedback
\* actions on any message
FeedbackEnv ==
    Env({Event("app_mention", "channel", None, "t1", None, "<@U1> q")}, {TRUE},
        {RawResponse(TRUE, c, "m1", None, None, None) : c \in ConvIds},
        {Msg("COMPLETED", [kind |-> "absent"], <<AttText>>, Absent),
         Msg("PENDING", [kind |-> "absent"], <<>>, Absent), NoMsg},
        FetchResults, {"none", "prompt"})

FeedbackNext == Step("w1", FeedbackEnv) \/ FeedbackStep

FeedbackSpec == Init /\ [][FeedbackNext]_vars

\* ------------------------------------------------ two handlers at a time

\* Questions in two threads, handled by two listener threads at a time; the
\* backend opens conversation c1 or c2 and answers or stays pending
ConcEnv ==
    Env({Event("app_mention", "channel", None, ts, None, "<@U1> q") : ts \in Threads},
        {TRUE},
        {RawResponse(TRUE, c, "m1", None, None, None) : c \in ConvIds},
        {Msg("COMPLETED", [kind |-> "absent"], <<AttText>>, Absent),
         Msg("PENDING", [kind |-> "absent"], <<>>, Absent)},
        {NoneQR}, {"none"})

\* a client that gives up after one poll_interval
ConcInit ==
    Start({1}, {1}, {0}) /\ fmt_in = NoFmt /\ fmt_out = NoFmt /\ NoParseCall

ConcNext == \E w \in Workers : Step(w, ConcEnv)

ConcSpec == ConcInit /\ [][ConcNext]_vars

\* ---------------------------------------------------------------- claims

\* C1 (as claimed): once a thread has had a successful ask, every later question
\* of that thread is sent with create_message carrying the conversation_id
\* that first ask returned, never with start_conversation.
C1_FollowUpsCarryFirstConversation ==
    [][\A w \in Workers :
          (/\ handler[w].pc = "ask"
           /\ handler'[w].pc # "ask"
           /\ first_conv[handler[w].thread_ts] # None)
          => handler'[w].sent =
                 <<"create_message", first_conv[handler[w].thread_ts]>>]_vars

\* C2 (as claimed): once thread_conversations[T] holds a conversation id, no
\* step changes it to another id.
C2_BindingNeverChanges ==
    [][\A t \in Threads :
          thread_conversations[t] # None
          => thread_conversations'[t] = thread_conversations[t]]_vars

\* The result of ask is set and present in the state
Returned(w) == handler[w].pc = "returned"

\* C3: every dict ask returns has, when success is false, an error that is
\* set and neither text nor result_data, and when success is true, error None.
C3_NormalizedAnswer ==
    \A w \in Workers :
        Returned(w) =>
            LET r == handler[w].result
            IN  /\ r.success \in BOOLEAN
                /\ ~r.success =>
                       /\ r.error \notin {None, Absent}
                       /\ r.text = Absent
                       /\ r.result_data = AbsentQR
                /\ r.success => r.error = None

\* C3 witness: ask has returned the failure of a FAILED message and, in
\* another run, a success; here the failure with the backend's message.
C3_Witness ==
    \E w \in Workers :
        /\ Returned(w)
        /\ ~handler[w].result.success
        /\ handler[w].result.error = "E"
        /\ handler[w].gets = 2

\* ask left the poll loop at the deadline: every get_message succeeded with
\* a status that is not terminal, and only the sleeps took time
DeadlineExit(w) ==
    /\ Returned(w)
    /\ handler[w].cid # None
    /\ handler[w].get_failed_at = 0
    /\ rtt = 0
    /\ handler[w].now >= max_wait

\* C4: at the deadline ask returns the timeout failure, having made within
\* one of max_wait / poll_interval get_message calls; and get_message is
\* only ever called before the deadline.
C4_TimeoutPollCount ==
    /\ [](\A w \in Workers :
            DeadlineExit(w) =>
                /\ handler[w].result =
                       Failure(handler[w].cid, handler[w].mid, ErrTimeout)
                /\ (handler[w].gets - 1) * poll_interval <= max_wait
                /\ max_wait <= (handler[w].gets + 1) * poll_interval)
    /\ [][\A w \in Workers :
            handler'[w].gets > handler[w].gets => handler[w].now < max_wait]_vars

\* C4 witness: a timeout after three polls
C4_Witness ==
    \E w \in Workers : DeadlineExit(w) /\ handler[w].gets = 3 /\ poll_interval = 1

\* C5: a poll loop that has started ends, and ask returns.
C5_PollTerminates ==
    \A w \in Workers : (handler[w].pc = "poll") ~> Returned(w)

\* C5 witness: the loop has ended on a terminal status after polls that were
\* not terminal
C5_Witness ==
    \E w \in Workers :
        Returned(w) /\ handler[w].gets >= 2 /\ handler[w].result.success

\* C6: after a get_message that failed, ask has returned the timeout
\* failure, and made no further get_message and no get_query_result call.
C6_PollFailureAborts ==
    \A w \in Workers :
        handler[w].get_failed_at > 0 =>
            /\ Returned(w)
            /\ handler[w].gets = handler[w].get_failed_at
            /\ handler[w].fetched = <<>>
            /\ handler[w].result =
                   Failure(handler[w].cid, handler[w].mid, ErrTimeout)

\* C6 witness: the second poll failed well before the deadline
C6_Witness ==
    \E w \in Workers :
        /\ handler[w].get_failed_at = 2
        /\ handler[w].now + poll_interval < max_wait

\* C7: when the start_conversation or create_message request fails, ask
\* returns at once the "Failed to send message" failure, with no get_message
\* and no get_query_result call.
C7_SendFailureReturns ==
    [][\A w \in Workers :
          AskSend(w, NoRaw) =>
              /\ handler'[w].pc = "returned"
              /\ handler'[w].result =
                     Failure(thread_conversations[handler[w].thread_ts], Absent, ErrSend)
              /\ handler'[w].gets = 0
              /\ handler'[w].fetched = <<>>]_vars

\* C7 witness: a follow-up whose create_message request failed
C7_Witness ==
    \E w \in Workers :
        /\ Returned(w)
        /\ handler[w].sent = <<"create_message", "c1">>
        /\ handler[w].result.error = ErrSend
        /\ handler[w].gets = 0

\* C8: a feedback action on a ts that feedback_map does not hold makes no
\* send_feedback call, posts and updates no chat message and leaves both
\* binding tables as they are.
C8_UnboundFeedbackNoOp ==
    [][\A ts \in FeedbackTs :
          (/\ ts \notin DOMAIN feedback_map
           /\ \E rating \in {"POSITIVE", "NEGATIVE"}, sent \in BOOLEAN,
                 updated \in BOOLEAN : Feedback(ts, rating, sent, updated))
          => UNCHANGED <<feedback_sent, prompts, thread_conversations,
                         feedback_map, handler>>]_vars

\* C8 witness: an action on an unbound ts was dropped while a prompt is bound
C8_Witness ==
    /\ warnings # {}
    /\ Len(feedback_map) = 1
    /\ feedback_sent = {}
    /\ prompts = <<"buttons">>

FmtDone == fmt_out # NoFmt

\* the query result has a schema and rows
FmtHasTable ==
    Len(fmt_in.result_data.columns) > 0 /\ Len(fmt_in.result_data.data_array) > 0

\* the table has 2 + min(len(rows), max_rows) lines, at most max_rows of them
\* data rows, and no cell wider than the ceiling
FmtTableShape ==
    /\ fmt_out.kind = "table"
    /\ Len(fmt_out.lines) =
           2 + Min(Len(fmt_in.result_data.data_array), fmt_in.max_rows)
    /\ Len(fmt_out.lines) - 2 <= fmt_in.max_rows
    /\ Len(fmt_out.cells) = Len(fmt_out.lines)
    /\ \A i \in 1..Len(fmt_out.cells) : \A j \in 1..Len(fmt_out.cells[i]) :
           Len(fmt_out.cells[i][j]) <= ColumnCeiling

\* no displayed row has more values than the schema has columns
FmtRowsFit ==
    \A r \in 1..Min(Len(fmt_in.result_data.data_array), fmt_in.max_rows) :
        Len(fmt_in.result_data.data_array[r]) <= Len(fmt_in.result_data.columns)

\* C9 (as claimed): _format_query_result returns None without schema or rows
\* and otherwise, for every max_rows and rows of any arity, the table of
\* 2 + min(len(rows), max_rows) lines with no cell wider than the ceiling.
C9_TableShapeAnyInput ==
    FmtDone =>
        /\ ~FmtHasTable => fmt_out.kind = "None"
        /\ FmtHasTable => FmtTableShape

\* C9 (amended): the same when no displayed row is longer than the schema; a
\* longer displayed row makes the function raise IndexError.
C9_TableShape ==
    FmtDone =>
        /\ ~FmtHasTable => fmt_out.kind = "None"
        /\ (FmtHasTable /\ FmtRowsFit) => FmtTableShape
        /\ (FmtHasTable /\ ~FmtRowsFit) => fmt_out.kind = "IndexError"

\* C9 witness: more rows than max_rows, and a value cut to the ceiling
C9_Witness ==
    /\ FmtDone
    /\ fmt_out.kind = "table"
    /\ fmt_in.max_rows = 1
    /\ Len(fmt_in.result_data.data_array) = 2
    /\ Len(fmt_out.lines) = 3
    /\ fmt_in.result_data.data_array[1] = <<Rep("v", ColumnCeiling + 1)>>
    /\ fmt_out.cells[3] = <<Rep("v", ColumnCeiling)>>

\* C10: an event that carries a bot_id ends the handler at once: no chat
\* message, no backend call, and no change to either binding table.
C10_BotEventsIgnored ==
    /\ [](\A w \in Workers :
            Truthy(handler[w].bot_id) =>
                /\ handler[w].pc = "idle"
                /\ handler[w].ret = "ignored"
                /\ handler[w].out = <<>>
                /\ handler[w].sent = <<>>
                /\ handler[w].gets = 0
                /\ handler[w].fetched = <<>>)
    /\ [][\A w \in Workers :
            (handler'[w] # handler[w] /\ Truthy(handler'[w].bot_id))
            => UNCHANGED <<thread_conversations, feedback_map, prompts,
                           feedback_sent>>]_vars

\* C10 witness: a bot's message in a thread that has a conversation was ignored
C10_Witness ==
    \E w \in Workers :
        /\ handler[w].bot_id = "B1"
        /\ handler[w].ret = "ignored"
        /\ handler[w].text = "<@U1> q"
        /\ thread_conversations["t1"] # None

\* the text of the event (or of the event a handler has taken) is empty or
\* whitespace once the mentions are removed
BlankQuestion(e) == ~Truthy(e.bot_id) /\ Strip(strip_mention(e.text)) = ""

\* C11: a question event whose text is blank after the mentions are removed
\* gets the one prompt-for-input reply, in its thread, and the handler ends:
\* no placeholder, no request to the backend, no change to either binding
\* table (a say call that raises ends the handler with nothing posted).
C11_BlankQuestionPrompted ==
    [][\A w \in Workers :
          (handler[w].pc = "idle" /\ handler'[w] # handler[w]
           /\ BlankQuestion(handler'[w]))
          => \A e \in Events : \A posted \in BOOLEAN :
          (e.text = handler'[w].text /\ e.bot_id = handler'[w].bot_id
           /\ Receive(w, e, posted))
          => /\ handler'[w].pc = "idle"
             /\ handler'[w].sent = <<>>
             /\ handler'[w].gets = 0
             /\ handler'[w].result = NoResult
             /\ handler'[w].out =
                    IF posted
                    THEN <<Post("prompt_for_input", Or(e.thread_ts, e.ts), TextPrompt)>>
                    ELSE <<>>
             /\ UNCHANGED <<thread_conversations, feedback_map, prompts>>]_vars

\* C11 witness: a mention with nothing after it, in a thread that has a
\* conversation, was answered with the prompt for input
C11_Witness ==
    \E w \in Workers :
        /\ handler[w].pc = "idle"
        /\ handler[w].text = "<@U1> "
        /\ handler[w].ret = "prompted"
        /\ Len(handler[w].out) = 1
        /\ handler[w].out[1].kind = "prompt_for_input"
        /\ thread_conversations[handler[w].out[1].thread_ts] # None

\* C12 (as claimed): a placeholder post that fails does not end the handling
\* of the question: the handler goes on to ask.
C12_PlaceholderFailureNotFatal ==
    [][\A w \in Workers :
          (handler[w].pc = "idle" /\ handler'[w] # handler[w]
           /\ ~Truthy(handler'[w].bot_id) /\ ~BlankQuestion(handler'[w]))
          => handler'[w].pc = "ask"]_vars

\* the kinds of the chat messages a handler posted, in order
Kinds(out) == [i \in 1..Len(out) |-> out[i].kind]

\* C13: feedback_map holds one entry per posted feedback prompt, keyed by the
\* prompt's id; an entry is written only by the handler of a successful
\* answer, in the step that posts the prompt after the answer, and is the
\* (conversation_id, message_id) of that answer; entries are never changed,
\* and a failed answer posts no prompt and writes no entry.
C13_FeedbackBindingCorrect ==
    /\ [](DOMAIN feedback_map = DOMAIN prompts)
    /\ [][/\ Len(feedback_map') >= Len(feedback_map)
          /\ SubSeq(feedback_map', 1, Len(feedback_map)) = feedback_map
          /\ (feedback_map' # feedback_map \/ Len(prompts') # Len(prompts))
             => \E w \in Workers :
                  LET r == handler[w].result
                      out == handler'[w].out
                  IN  /\ handler[w].pc = "returned"
                      /\ handler'[w].pc = "idle"
                      /\ r.success
                      /\ feedback_map' =
                             Append(feedback_map, <<r.conversation_id, r.message_id>>)
                      /\ Len(prompts') = Len(prompts) + 1
                      /\ out[Len(out)].kind = "feedback_prompt"
                      /\ \E i \in 1..(Len(out) - 1) : out[i].kind = "answer"
          /\ \A w \in Workers :
                (handler[w].pc = "returned" /\ handler'[w].pc = "idle"
                 /\ ~handler[w].result.success)
                => /\ \A i \in 1..Len(handler'[w].out) :
                          handler'[w].out[i].kind # "feedback_prompt"
                   /\ UNCHANGED <<feedback_map, prompts>>]_vars

\* C13 witness: the prompt that followed a successful answer of conversation
\* c2 is bound to that answer
C13_Witness ==
    /\ feedback_map = <<<<"c2", "m1">>>>
    /\ Len(prompts) = 1
    /\ \E w \in Workers :
          /\ handler[w].ret = "answered"
          /\ Kinds(handler[w].out) = <<"placeholder", "answer", "feedback_prompt">>

\* C14: for a failed result of ask the handler posts the one reply
\* "Sorry, something went wrong: <error>" in the thread and ends normally,
\* with no table, no feedback prompt and no feedback binding; and once ask
\* has sent the question, the handler of that event never sends again.
C14_FailureHandledUniformly ==
    [][\A w \in Workers :
          /\ (handler[w].pc = "returned" /\ ~handler[w].result.success
               /\ Answer(w, "none"))
              => /\ handler'[w].pc = "idle"
                 /\ handler'[w].ret = "answered"
                 /\ handler'[w].out =
                        <<Post("placeholder", handler[w].thread_ts, TextThinking),
                          Post("answer", handler[w].thread_ts,
                               "Sorry, something went wrong: "
                                   \o handler[w].result.error)>>
                 /\ UNCHANGED <<feedback_map, prompts>>
          /\ handler[w].pc \in {"poll", "returned"}
              => /\ handler'[w].pc # "ask"
                 /\ handler'[w].pc # "idle" => handler'[w].sent = handler[w].sent]_vars

\* C14 witness: a question whose poll timed out was answered with the error
C14_Witness ==
    \E w \in Workers :
        /\ handler[w].pc = "idle"
        /\ handler[w].ret = "answered"
        /\ Len(handler[w].out) = 2
        /\ handler[w].out[2] =
               Post("answer", "t1", "Sorry, something went wrong: " \o ErrTimeout)

\* C15: with two handlers at a time, a handler sends start_conversation
\* exactly when it read no binding for its thread; the step in which a handler
\* finishes writes the conversation of its own result over whatever binding
\* its thread has (the last to finish wins), and changes the binding of no
\* other thread.
C15_LastFinisherWins ==
    [][\A w \in Workers :
          /\ (handler[w].pc = "ask" /\ handler'[w].pc # "ask")
              => handler'[w].sent =
                     IF thread_conversations[handler[w].thread_ts] = None
                     THEN <<"start_conversation">>
                     ELSE <<"create_message",
                            thread_conversations[handler[w].thread_ts]>>
          /\ (handler[w].pc = "returned" /\ handler'[w].pc = "idle")
              => \A t \in Threads :
                     thread_conversations'[t] =
                         IF t = handler[w].thread_ts
                            /\ Truthy(handler[w].result.conversation_id)
                         THEN handler[w].result.conversation_id
                         ELSE thread_conversations[t]]_vars

\* C15 witness: thread t1 is bound to c1 by a handler that has finished,
\* while a second handler of t1, which read no binding and started
\* conversation c2, is about to write c2 over it
C15_Witness ==
    /\ thread_conversations["t1"] = "c1"
    /\ handler["w1"].pc = "idle"
    /\ handler["w1"].ret = "answered"
    /\ handler["w2"].pc = "returned"
    /\ handler["w2"].thread_ts = "t1"
    /\ handler["w2"].sent = <<"start_conversation">>
    /\ handler["w2"].result.conversation_id = "c2"

ParseDone == parse_out # NoParse

\* the positions of the query fragments of the parsed message
QueryAt == {i \in 1..Len(parse_in.msg.attachments) :
               parse_in.msg.attachments[i].has_query}

\* C16: generated_query is the query string of the last query fragment in
\* attachment order; a message with no query fragment has generated_query
\* None, query_result None, and no get_query_result call was made for it.
C16_LastQueryWins ==
    ParseDone =>
        /\ parse_out.result.success
        /\ QueryAt # {}
            => parse_out.result.sql = parse_in.msg.attachments[MaxOf(QueryAt)].query
        /\ QueryAt = {}
            => /\ parse_out.result.sql = None
               /\ parse_out.result.result_data = NoneQR
               /\ parse_out.fetched = <<>>

\* C16 witness: two query fragments with different query strings, the second
\* one reported
C16_Witness ==
    /\ ParseDone
    /\ parse_in.msg.attachments = <<AttQuery, AttQuery2>>
    /\ parse_out.result.sql = "Q2"

\* C17 (as claimed): parsing a COMPLETED message makes at most one
\* get_query_result call, for the first query fragment that has an
\* attachment id.
C17_AtMostOneFetch ==
    ParseDone => Len(parse_out.fetched) <= 1

\* the get_message bodies whose status is FAILED or CANCELLED
FailedMsgs == {msg \in PollMsgs : msg.status \in {"FAILED", "CANCELLED"}}

\* the error the backend reported in msg, or Absent when it reported none
ReportedError(msg) ==
    IF msg.error.kind = "dict" THEN msg.error.message
    ELSE IF msg.error.kind = "other" THEN msg.error.str
    ELSE Absent

\* C18: the poll that reads status FAILED or CANCELLED is the last one; ask
\* returns the failure whose error is the error the backend reported, or a
\* non-empty text when it reported none, and makes no get_query_result call.
C18_FailedStatusReturnsError ==
    [][\A w \in Workers :
          handler[w].pc = "poll"
          => \A msg \in FailedMsgs : \A fetch \in [1..1 -> FetchResults] :
               Poll(w, msg, fetch)
               => /\ handler'[w].pc = "returned"
                  /\ handler'[w].gets = handler[w].gets + 1
                  /\ handler'[w].fetched = <<>>
                  /\ ~handler'[w].result.success
                  /\ handler'[w].result.conversation_id = handler[w].cid
                  /\ handler'[w].result.message_id = handler[w].mid
                  /\ IF ReportedError(msg) # Absent
                     THEN handler'[w].result.error = ReportedError(msg)
                     ELSE Len(handler'[w].result.error) > 0]_vars

\* C18 witness: the third poll read a failed status whose error is not a dict
C18_Witness ==
    \E w \in Workers :
        /\ Returned(w)
        /\ handler[w].gets = 3
        /\ handler[w].get_failed_at = 0
        /\ handler[w].result.error = "oops"

\* the orders in which one handled question posts its chat messages
ReplyOrders ==
    {<<"placeholder">>, <<"placeholder", "answer">>,
     <<"placeholder", "answer", "table">>,
     <<"placeholder", "answer", "feedback_prompt">>,
     <<"placeholder", "answer", "table", "feedback_prompt">>}

\* C19: while ask runs, the placeholder is the one message posted, and it
\* was posted before the request was sent; the step that follows the return
\* of ask writes the binding and posts the answer, then the table (only for a
\* result with a query result), then the feedback prompt (only for a
\* success), all in the thread of the question.
C19_ReplyOrder ==
    /\ [](\A w \in Workers :
            handler[w].pc \in {"ask", "poll", "returned"}
            => /\ handler[w].out =
                      <<Post("placeholder", handler[w].thread_ts, TextThinking)>>
               /\ handler[w].pc = "ask" => handler[w].sent = <<>>)
    /\ [][\A w \in Workers :
            (handler[w].pc = "returned" /\ handler'[w].pc = "idle")
            => LET r == handler[w].result
                   out == handler'[w].out
                   t == handler[w].thread_ts
               IN  /\ Kinds(out) \in ReplyOrders
                   /\ \A i \in 1..Len(out) : out[i].thread_ts = t
                   /\ (\E i \in 1..Len(out) : out[i].kind = "table")
                      => TruthyQR(r.result_data)
                   /\ (\E i \in 1..Len(out) : out[i].kind = "feedback_prompt")
                      => r.success
                   /\ Truthy(r.conversation_id)
                      => thread_conversations'[t] = r.conversation_id]_vars

\* C19 witness: a success with a query result got all four messages
C19_Witness ==
    \E w \in Workers :
        /\ handler[w].pc = "idle"
        /\ Kinds(handler[w].out) =
               <<"placeholder", "answer", "table", "feedback_prompt">>
        /\ \A i \in 1..4 : handler[w].out[i].thread_ts = "t2"

\* C20 (as claimed): the number of rows a footer reports as shown is the
\* number of data rows of the rendered table.
C20_FooterCountsRenderedRows ==
    (FmtDone /\ fmt_out.kind = "table" /\ fmt_out.footer # NoFooter)
    => fmt_out.footer.shown = Len(fmt_out.lines) - 2

\* C21 (as claimed): when a parsed answer carries both a generated_query and
\* a query_result, the query_result was fetched for the attachment whose
\* query string is the generated_query (the last query fragment).
C21_ResultMatchesQuery ==
    (ParseDone /\ parse_out.result.sql # None
       /\ TruthyQR(parse_out.result.result_data))
    => parse_out.fetched_at = MaxOf(QueryAt)

\* C22: when the first question of a thread started a conversation and ask
\* then failed while polling (a failed get_message, the deadline, status
\* FAILED or CANCELLED), the handler binds the thread to the started
\* conversation; when the send itself failed the thread stays unbound; and a
\* question in a bound thread is sent with create_message in the bound
\* conversation, not with start_conversation.
C22_FailedAskStillBinds ==
    [][\A w \in Workers :
          /\ (/\ handler[w].pc = "returned" /\ handler'[w].pc = "idle"
               /\ handler[w].sent = <<"start_conversation">>
               /\ thread_conversations[handler[w].thread_ts] = None
               /\ ~handler[w].result.success)
              => /\ handler[w].cid # None
                    => thread_conversations'[handler[w].thread_ts] = handler[w].cid
                 /\ handler[w].result.error = ErrSend
                    => thread_conversations'[handler[w].thread_ts] = None
          /\ (/\ handler[w].pc = "ask" /\ handler'[w].pc # "ask"
               /\ thread_conversations[handler[w].thread_ts] # None)
              => handler'[w].sent =
                     <<"create_message", thread_conversations[handler[w].thread_ts]>>]_vars

\* C22 witness: thread t1 has had no successful answer, its first ask started
\* conversation c1 and failed, and the next question of t1 went to c1
C22_Witness ==
    \E w \in Workers :
        /\ first_conv["t1"] = None
        /\ thread_conversations["t1"] = "c1"
        /\ handler[w].pc = "poll"
        /\ handler[w].thread_ts = "t1"
        /\ handler[w].sent = <<"create_message", "c1">>

====
